---------------------------- MODULE Spec2Model ----------------------------
(***************************************************************************)
(* Model of the voter RAG chatbot: the conversation layer                  *)
(* (src/rag/chain.py ConversationManager, as wired by src/app.py) and the  *)
(* SQL dump parser (src/utils/data_loader.py).                             *)
(*                                                                         *)
(* Text is modelled as a sequence of characters, each character a          *)
(* one-character string; a Bengali code point is written "uXXXX".          *)
(***************************************************************************)
EXTENDS Integers, Sequences, FiniteSets, TLC

VARIABLES
    cached,        \* st.cache_resource entry of initialize_system: 0 = miss, else the manager it holds
    vector_store,  \* Retrieval Documents held by the vector index
    rag_chain,     \* the VoterRAGChain the managers point at ("None" before initialisation)
    cm_history,    \* cm_history[m]: self.history of ConversationManager instance m
    session_cm,    \* session_cm[s]: the manager main() obtained in session s (0 = script not run yet)
    pc,            \* pc[s]: "idle", or "query" while chat() waits in rag_chain.query
    pending,       \* pending[s]: the locals of the chat() call in flight in session s
    ret,           \* ret[s]: what the session's last chat() call returned or raised
    last,          \* the operation that made the last step
    dump,          \* the SQL dump file given to parse_sql_dump: its layout and its rows of tokens
    ppc,           \* load_voters_from_sql's position: "idle" (not called), "start", "done"
                   \* once parse_sql_dump has returned, "loaded" once it has returned itself
    voters,        \* the list parse_sql_dump returned
    strategy,      \* the strategy that produced it: "primary" or "fallback"
    documents,     \* the list create_voter_documents returned
    load_ret       \* what load_voters_from_sql returned or raised, None while it runs

chatVars == <<cached, vector_store, rag_chain, cm_history, session_cm, pc, pending, ret, last>>

parseVars == <<dump, ppc, voters, strategy, documents, load_ret>>

vars == <<chatVars, parseVars>>

-----------------------------------------------------------------------------
(* Characters and strings *)

Whitespace == {" ", "\t", "\n", "\r", "\f"}

IsSpace(c) == c \in Whitespace

UpperCase == <<"A", "B", "C", "D", "E", "F", "G", "H", "I", "J", "K", "L", "M",
               "N", "O", "P", "Q", "R", "S", "T", "U", "V", "W", "X", "Y", "Z">>

LowerCase == <<"a", "b", "c", "d", "e", "f", "g", "h", "i", "j", "k", "l", "m",
               "n", "o", "p", "q", "r", "s", "t", "u", "v", "w", "x", "y", "z">>

\* str.lower() on one character: ASCII capitals fold, everything else
\* (digits, punctuation, Bengali code points) is left as it is.
LowerChar(c) ==
    IF \E i \in 1..Len(UpperCase) : UpperCase[i] = c
    THEN LowerCase[CHOOSE i \in 1..Len(UpperCase) : UpperCase[i] = c]
    ELSE c

\* str.lower()
lower(s) == [i \in 1..Len(s) |-> LowerChar(s[i])]

\* "sub in s"
Contains(s, sub) ==
    \E i \in 0..(Len(s) - Len(sub)) : SubSeq(s, i + 1, i + Len(sub)) = sub

\* str.split() with no separator: the maximal runs of non-whitespace.
RECURSIVE SplitFrom(_, _, _, _)
SplitFrom(s, i, cur, acc) ==
    IF i > Len(s)
    THEN IF cur = <<>> THEN acc ELSE Append(acc, cur)
    ELSE IF IsSpace(s[i])
         THEN SplitFrom(s, i + 1, <<>>, IF cur = <<>> THEN acc ELSE Append(acc, cur))
         ELSE SplitFrom(s, i + 1, Append(cur, s[i]), acc)

split(s) == SplitFrom(s, 1, <<>>, <<>>)

\* sep.join(ws)
RECURSIVE Join(_, _)
Join(ws, sep) ==
    IF ws = <<>> THEN <<>>
    ELSE IF Len(ws) = 1 THEN ws[1]
    ELSE ws[1] \o sep \o Join(Tail(ws), sep)

\* Python's None; no text equals it, since a character is a one-character string
None == <<"None">>

-----------------------------------------------------------------------------
(* ConversationManager *)

follow_up_indicators ==
    << <<"u09A4", "u09BE", "u09B0">>,
       <<"u09A4", "u09BE", "u09A6", "u09C7", "u09B0">>,
       <<"u09A4", "u09BF", "u09A8", "u09BF">>,
       <<"u09B8", "u09C7", "u0987">>,
       <<"u0990">>,
       <<"h", "i", "s">>,
       <<"h", "e", "r">>,
       <<"t", "h", "e", "i", "r">>,
       <<"t", "h", "e", "y">>,
       <<"t", "h", "a", "t">>,
       <<"t", "h", "o", "s", "e">>,
       <<"u0995", "u09A4", "u099C", "u09A8">>,
       <<"u0995", "u09CB", "u09A5", "u09BE", "u09AF", "u09BC">>,
       <<"u0995", "u0996", "u09A8">> >>

is_follow_up_le(question) ==
    /\ \E k \in 1..Len(follow_up_indicators) :
            Contains(lower(question), follow_up_indicators[k])
    /\ Len(split(question)) <= 5

\* ConversationManager._is_follow_up
is_follow_up(question) ==
    /\ \E k \in 1..Len(follow_up_indicators) :
            Contains(lower(question), follow_up_indicators[k])
    /\ Len(split(question)) < 5

PreviousLabel == <<"P", "r", "e", "v", "i", "o", "u", "s", " ",
                   "q", "u", "e", "s", "t", "i", "o", "n", ":", " ">>

CurrentLabel == <<"C", "u", "r", "r", "e", "n", "t", " ",
                  "q", "u", "e", "s", "t", "i", "o", "n", ":", " ">>

\* f"Previous question: {last_q}\nCurrent question: {question}"
ContextFrame(last_q, question) ==
    PreviousLabel \o last_q \o <<"\n">> \o CurrentLabel \o question

context_enhanced_first_turn(h, question) ==
    IF h # <<>> /\ Len(h) > 0 /\ is_follow_up(question)
    THEN ContextFrame(h[1].question, question)
    ELSE question

\* chat(), lines 211-217: the query handed to rag_chain.query
context_enhanced_question(h, question) ==
    IF h # <<>> /\ Len(h) > 0
    THEN LET last_q == h[Len(h)].question
         IN  IF is_follow_up(question)
             THEN ContextFrame(last_q, question)
             ELSE question
    ELSE question

\* the variant that puts the new turn in front
add_to_history_front(h, question, answer) ==
    <<[question |-> question, answer |-> answer]>> \o h

\* ConversationManager.add_to_history
add_to_history(h, question, answer) ==
    Append(h, [question |-> question, answer |-> answer])

-----------------------------------------------------------------------------
(* The dump parser: src/utils/data_loader.py *)

columns ==
    <<"id", "serial_bn", "serial", "name", "name_normalized", "voter_id_bn",
      "voter_id", "father_name", "father_name_normalized", "mother_name",
      "occupation", "date_of_birth", "address", "voter_area_no_bn",
      "voter_area_no", "union", "ward_bn", "ward", "gender", "created_at",
      "updated_at", "phonetic_name", "phonetic_father_name">>

ColumnIndex(col) == CHOOSE i \in 1..Len(columns) : columns[i] = col

NULL == <<"N", "U", "L", "L">>

Quote == "'"

\* insert_pattern, one entry per capture group: "int" is (\d+), "str" is
\* '([^']*)' (the group is the text between the quotes), "opt" is
\* (NULL|'[^']*') (the group keeps the quotes).
insert_pattern ==
    <<"int", "str", "str", "str", "str", "opt", "opt", "str", "str", "str",
      "opt", "str", "str", "str", "str", "str", "str", "str", "str", "str",
      "str", "str", "str">>

Digits == {"0", "1", "2", "3", "4", "5", "6", "7", "8", "9",
           "u09E6", "u09E7", "u09E8", "u09E9", "u09EA",
           "u09EB", "u09EC", "u09ED", "u09EE", "u09EF"}

StartsWith(s, pre) == Len(s) >= Len(pre) /\ SubSeq(s, 1, Len(pre)) = pre

EndsWith(s, suf) ==
    Len(s) >= Len(suf) /\ SubSeq(s, Len(s) - Len(suf) + 1, Len(s)) = suf

\* text[p:].startswith(pre)
StartsAt(text, p, pre) ==
    p + Len(pre) - 1 <= Len(text) /\ SubSeq(text, p, p + Len(pre) - 1) = pre

\* the first position from p on whose character is not in cs
RECURSIVE SkipWhile(_, _, _)
SkipWhile(text, p, cs) ==
    IF p <= Len(text) /\ text[p] \in cs THEN SkipWhile(text, p + 1, cs) ELSE p

\* the first position from p on that holds a quote (Len + 1 if none): [^']*
RECURSIVE SkipNonQuote(_, _)
SkipNonQuote(text, p) ==
    IF p <= Len(text) /\ text[p] # Quote THEN SkipNonQuote(text, p + 1) ELSE p

\* str.strip(chars)
strip_chars(s, cs) ==
    IF \A i \in 1..Len(s) : s[i] \in cs
    THEN <<>>
    ELSE LET first == CHOOSE i \in 1..Len(s) :
                          s[i] \notin cs /\ \A j \in 1..(i - 1) : s[j] \in cs
             lst == CHOOSE i \in 1..Len(s) :
                          s[i] \notin cs /\ \A j \in (i + 1)..Len(s) : s[j] \in cs
         IN  SubSeq(s, first, lst)

\* str.strip()
strip(s) == strip_chars(s, Whitespace)

NoMatch == [ok |-> FALSE, group |-> <<>>, end |-> 0]

\* '([^']*)' at p
MatchStr(text, p) ==
    IF p <= Len(text) /\ text[p] = Quote
    THEN LET q == SkipNonQuote(text, p + 1)
         IN  IF q <= Len(text)
             THEN [ok |-> TRUE, group |-> SubSeq(text, p + 1, q - 1), end |-> q + 1]
             ELSE NoMatch
    ELSE NoMatch

\* (NULL|'[^']*') at p
MatchOpt(text, p) ==
    IF StartsAt(text, p, NULL)
    THEN [ok |-> TRUE, group |-> NULL, end |-> p + 4]
    ELSE LET m == MatchStr(text, p)
         IN  IF m.ok
             THEN [ok |-> TRUE, group |-> <<Quote>> \o m.group \o <<Quote>>, end |-> m.end]
             ELSE NoMatch

NoRow == [ok |-> FALSE, groups |-> <<>>, end |-> 0]

\* the groups from number i on, each after ",\s*", and the closing "\)"
RECURSIVE MatchGroups(_, _, _, _)
MatchGroups(text, p, i, groups) ==
    IF i > Len(insert_pattern)
    THEN IF p <= Len(text) /\ text[p] = ")"
         THEN [ok |-> TRUE, groups |-> groups, end |-> p + 1]
         ELSE NoRow
    ELSE IF p <= Len(text) /\ text[p] = ","
         THEN LET q == SkipWhile(text, p + 1, Whitespace)
                  m == IF insert_pattern[i] = "opt"
                       THEN MatchOpt(text, q)
                       ELSE MatchStr(text, q)
              IN  IF m.ok
                  THEN MatchGroups(text, m.end, i + 1, Append(groups, m.group))
                  ELSE NoRow
         ELSE NoRow

\* insert_pattern matched at position p: "\(" and (\d+), then the rest
MatchRowAt(text, p) ==
    IF p <= Len(text) /\ text[p] = "("
    THEN LET d == SkipWhile(text, p + 1, Digits)
         IN  IF d > p + 1
             THEN MatchGroups(text, d, 2, <<SubSeq(text, p + 1, d - 1)>>)
             ELSE NoRow
    ELSE NoRow

\* the first position from p on that holds character c (Len + 1 if none)
NextIndex(text, p, c) ==
    IF \E i \in p..Len(text) : text[i] = c
    THEN CHOOSE i \in p..Len(text) :
            text[i] = c /\ \A j \in p..(i - 1) : text[j] # c
    ELSE Len(text) + 1

\* re.findall(insert_pattern, content): the group tuples of the
\* non-overlapping matches, scanning from the left; a match can only start
\* at a "(", so the scan moves from one "(" to the next
RECURSIVE FindAllFrom(_, _, _)
FindAllFrom(text, p, acc) ==
    LET start == NextIndex(text, p, "(")
    IN  IF start > Len(text)
        THEN acc
        ELSE LET m == MatchRowAt(text, start)
             IN  IF m.ok
                 THEN FindAllFrom(text, m.end, Append(acc, m.groups))
                 ELSE FindAllFrom(text, start + 1, acc)

findall(text) == FindAllFrom(text, 1, <<>>)

\* the loop body of parse_sql_dump, lines 41-53: one match to one voter
VoterOfMatch(match) ==
    [col \in {columns[i] : i \in 1..Len(columns)} |->
        LET i == ColumnIndex(col)
        IN  IF i <= Len(match)
            THEN LET value == match[i]
                 IN  IF value = NULL
                     THEN None
                     ELSE IF StartsWith(value, <<Quote>>) /\ EndsWith(value, <<Quote>>)
                          THEN SubSeq(value, 2, Len(value) - 1)
                          ELSE value
            ELSE None]

\* parse_record_values, lines 124-134: the loop body, on one character
ScanStep(st, char) ==
    IF char = Quote /\ ~st.in_quotes
    THEN [st EXCEPT !.in_quotes = TRUE, !.current = Append(@, char)]
    ELSE IF char = Quote /\ st.in_quotes
    THEN [st EXCEPT !.in_quotes = FALSE, !.current = Append(@, char)]
    ELSE IF char = "," /\ ~st.in_quotes
    THEN [st EXCEPT !.values = Append(@, strip(st.current)), !.current = <<>>]
    ELSE [st EXCEPT !.current = Append(@, char)]

\* the loop of lines 123-134 over record[lo..hi], left to right, from state
\* st (the range is halved only to keep the evaluation shallow)
RECURSIVE ScanRange(_, _, _, _)
ScanRange(record, lo, hi, st) ==
    IF lo > hi THEN st
    ELSE IF lo = hi THEN ScanStep(st, record[lo])
    ELSE LET mid == (lo + hi) \div 2
             left == ScanRange(record, lo, mid, st)
         IN  IF left.in_quotes \in BOOLEAN    \* the left part is evaluated first
             THEN ScanRange(record, mid + 1, hi, left)
             ELSE left

\* parse_record_values, lines 119-137: the quote-aware split on commas
ScanValues(record) ==
    LET st == ScanRange(record, 1, Len(record),
                        [current |-> <<>>, in_quotes |-> FALSE, values |-> <<>>])
    IN  IF st.current # <<>> THEN Append(st.values, strip(st.current)) ELSE st.values

\* parse_record_values, lines 141-147: one raw value cleaned
CleanValue(raw) ==
    LET v == strip(raw)
    IN  IF StartsWith(v, <<Quote>>) /\ EndsWith(v, <<Quote>>)
        THEN SubSeq(v, 2, Len(v) - 1)
        ELSE IF v = NULL THEN None ELSE v

parse_record_values(record) ==
    LET values == ScanValues(record)
    IN  [k \in 1..Len(values) |-> CleanValue(values[k])]

\* content.split('\n'): the pieces between the newlines, from p on
RECURSIVE SplitLines(_, _, _)
SplitLines(text, p, acc) ==
    LET nl == NextIndex(text, p, "\n")
    IN  IF nl > Len(text)
        THEN Append(acc, SubSeq(text, p, Len(text)))
        ELSE SplitLines(text, nl + 1, Append(acc, SubSeq(text, p, nl - 1)))

INSERT_INTO == <<"I", "N", "S", "E", "R", "T", " ", "I", "N", "T", "O">>

VOTERS == <<"v", "o", "t", "e", "r", "s">>

\* parse_sql_alternative, lines 70-80: the text after the INSERT line
RECURSIVE CollectValues(_, _, _, _)
CollectValues(lines, k, in_values, current_values) ==
    IF k > Len(lines)
    THEN current_values
    ELSE IF Contains(lines[k], INSERT_INTO) /\ Contains(lines[k], VOTERS)
         THEN CollectValues(lines, k + 1, TRUE, current_values)
         ELSE IF in_values
              THEN CollectValues(lines, k + 1, in_values, current_values \o lines[k])
              ELSE CollectValues(lines, k + 1, in_values, current_values)

\* where a match of \),\s*\n?\( that starts at p ends (0 if there is none)
RowBreakEnd(text, p) ==
    IF StartsAt(text, p, <<")", ",">>)
    THEN LET q == SkipWhile(text, p + 2, Whitespace)
         IN  IF q <= Len(text) /\ text[q] = "(" THEN q + 1 ELSE 0
    ELSE 0

\* re.split(r'\),\s*\n?\(', current_values): the pieces between the matches;
\* a match can only start at a ")", so the scan moves from one ")" to the next
RECURSIVE SplitRecords(_, _, _, _)
SplitRecords(text, piece_start, p, acc) ==
    LET close == NextIndex(text, p, ")")
    IN  IF close > Len(text)
        THEN Append(acc, SubSeq(text, piece_start, Len(text)))
        ELSE LET e == RowBreakEnd(text, close)
             IN  IF e # 0
                 THEN SplitRecords(text, e, e, Append(acc, SubSeq(text, piece_start, close - 1)))
                 ELSE SplitRecords(text, piece_start, close + 1, acc)

\* parse_sql_alternative, lines 88-94: the chunk without its parentheses
CleanRecord(chunk) ==
    LET r0 == strip(chunk)
        r1 == IF StartsWith(r0, <<"(">>) THEN Tail(r0) ELSE r0
        r2 == IF EndsWith(r1, <<")", ";">>) THEN SubSeq(r1, 1, Len(r1) - 2) ELSE r1
        r3 == IF EndsWith(r2, <<")">>) THEN SubSeq(r2, 1, Len(r2) - 1) ELSE r2
    IN  r3

VoterOfValuesEmptyIsNone(values) ==
    [col \in {columns[i] : i \in 1..Len(columns)} |->
        LET i == ColumnIndex(col)
            value == IF i <= Len(values) THEN values[i] ELSE None
        IN  IF value = NULL \/ value = None \/ value = <<>>
            THEN None
            ELSE strip_chars(value, {Quote})]

\* parse_sql_alternative, lines 103-109: the values of one chunk to a voter
VoterOfValues(values) ==
    [col \in {columns[i] : i \in 1..Len(columns)} |->
        LET i == ColumnIndex(col)
            value == IF i <= Len(values) THEN values[i] ELSE None
        IN  IF value = NULL \/ value = None
            THEN None
            ELSE strip_chars(value, {Quote})]

\* parse_sql_alternative, lines 86-110: the loop over the chunks
RECURSIVE VotersOfRecords(_, _, _)
VotersOfRecords(records, k, voters_acc) ==
    IF k > Len(records)
    THEN voters_acc
    ELSE LET record == CleanRecord(records[k])
         IN  IF record = <<>>
             THEN VotersOfRecords(records, k + 1, voters_acc)
             ELSE LET values == parse_record_values(record)
                  IN  IF Len(values) >= Len(columns)
                      THEN VotersOfRecords(records, k + 1,
                                           Append(voters_acc, VoterOfValues(values)))
                      ELSE VotersOfRecords(records, k + 1, voters_acc)

parse_sql_alternative(text) ==
    LET lines == SplitLines(text, 1, <<>>)
        current_values == CollectValues(lines, 1, FALSE, <<>>)
        records == SplitRecords(current_values, 1, 1, <<>>)
    IN  VotersOfRecords(records, 1, <<>>)

\* parse_sql_dump, lines 38-54: the voters of the primary strategy
parse_primary(text) ==
    LET matches == findall(text)
    IN  [k \in 1..Len(matches) |-> VoterOfMatch(matches[k])]

\* parse_sql_dump
parse_sql_dump(text) ==
    LET voters_primary == parse_primary(text)
    IN  IF Len(voters_primary) = 0
        THEN parse_sql_alternative(text)
        ELSE voters_primary

-----------------------------------------------------------------------------
(* create_voter_documents and load_voters_from_sql, utils/data_loader.py *)

\* dict.get(key, default): the default stands in only for a missing key
Get(voter, key, default) == IF key \in DOMAIN voter THEN voter[key] ELSE default

\* the truth value of a field in "if voter.get(key)": None and '' are false
Truthy(value) == value # None /\ value # <<>>

\* str(value) of a field: the text itself, and the word None for None
Str(value) == IF value = None THEN <<"N", "o", "n", "e">> ELSE value

\* lines 169-210: the fields of the text body in the order the code tests
\* them, each with the label its line starts with
text_fields ==
    <<[key |-> "name",
       label |-> <<"u09A8", "u09BE", "u09AE", " ", "(", "N", "a", "m", "e", ")", ":", " ">>],
      [key |-> "phonetic_name",
       label |-> <<"P", "h", "o", "n", "e", "t", "i", "c", " ", "N", "a", "m", "e", ":", " ">>],
      [key |-> "father_name",
       label |-> <<"u09AA", "u09BF", "u09A4", "u09BE", "u09B0", " ", "u09A8", "u09BE", "u09AE", " ", "(", "F", "a", "t", "h", "e", "r", "'", "s", " ", "N", "a", "m", "e", ")", ":", " ">>],
      [key |-> "phonetic_father_name",
       label |-> <<"P", "h", "o", "n", "e", "t", "i", "c", " ", "F", "a", "t", "h", "e", "r", ":", " ">>],
      [key |-> "mother_name",
       label |-> <<"u09AE", "u09BE", "u09A4", "u09BE", "u09B0", " ", "u09A8", "u09BE", "u09AE", " ", "(", "M", "o", "t", "h", "e", "r", "'", "s", " ", "N", "a", "m", "e", ")", ":", " ">>],
      [key |-> "occupation",
       label |-> <<"u09AA", "u09C7", "u09B6", "u09BE", " ", "(", "O", "c", "c", "u", "p", "a", "t", "i", "o", "n", ")", ":", " ">>],
      [key |-> "date_of_birth",
       label |-> <<"u099C", "u09A8", "u09CD", "u09AE", " ", "u09A4", "u09BE", "u09B0", "u09BF", "u0996", " ", "(", "D", "a", "t", "e", " ", "o", "f", " ", "B", "i", "r", "t", "h", ")", ":", " ">>],
      [key |-> "address",
       label |-> <<"u09A0", "u09BF", "u0995", "u09BE", "u09A8", "u09BE", " ", "(", "A", "d", "d", "r", "e", "s", "s", ")", ":", " ">>],
      [key |-> "ward",
       label |-> <<"u0993", "u09AF", "u09BC", "u09BE", "u09B0", "u09CD", "u09A1", " ", "u09A8", "u0982", " ", "(", "W", "a", "r", "d", " ", "N", "o", ")", ":", " ">>],
      [key |-> "ward_bn",
       label |-> <<"u0993", "u09AF", "u09BC", "u09BE", "u09B0", "u09CD", "u09A1", " ", "(", "u09AC", "u09BE", "u0982", "u09B2", "u09BE", ")", ":", " ">>],
      [key |-> "union",
       label |-> <<"u0987", "u0989", "u09A8", "u09BF", "u09AF", "u09BC", "u09A8", " ", "(", "U", "n", "i", "o", "n", ")", ":", " ">>],
      [key |-> "gender",
       label |-> <<"u09B2", "u09BF", "u0999", "u09CD", "u0997", " ", "(", "G", "e", "n", "d", "e", "r", ")", ":", " ">>],
      [key |-> "serial",
       label |-> <<"u0995", "u09CD", "u09B0", "u09AE", "u09BF", "u0995", " ", "u09A8", "u0982", " ", "(", "S", "e", "r", "i", "a", "l", ")", ":", " ">>]>>

\* the variant that leaves out only the fields that are None
text_parts_with_empty(voter) ==
    LET present == SelectSeq(text_fields, LAMBDA f : Get(voter, f.key, None) # None)
    IN  [k \in 1..Len(present) |-> present[k].label \o voter[present[k].key]]

\* lines 166-210
text_parts(voter) ==
    LET present == SelectSeq(text_fields, LAMBDA f : Truthy(Get(voter, f.key, None)))
    IN  [k \in 1..Len(present) |-> present[k].label \o voter[present[k].key]]

\* lines 216-228: the keys of the metadata
metadata_keys ==
    {"id", "name", "father_name", "mother_name", "occupation", "ward", "union",
     "gender", "date_of_birth", "address", "serial"}

metadata(voter) ==
    [key \in metadata_keys |->
        IF key = "id" THEN Str(Get(voter, "id", <<>>))
        ELSE Get(voter, key, <<>>)]

\* lines 213-229
Document(voter) ==
    [id |-> Str(Get(voter, "id", <<>>)),
     content |-> Join(text_parts(voter), <<"\n">>),
     metadata |-> metadata(voter)]

\* lines 152-232
create_voter_documents(vs) == [k \in 1..Len(vs) |-> Document(vs[k])]

-----------------------------------------------------------------------------
(* The dump files the parser is run on *)

MaxRows == 2

Header == <<"I", "N", "S", "E", "R", "T", " ", "I", "N", "T", "O", " ",
            "v", "o", "t", "e", "r", "s", " ", "V", "A", "L", "U", "E", "S">>

\* rows on their own lines after the INSERT line, ", " between values
Phpmyadmin == [afterHeader |-> <<"\n">>, fieldSep |-> <<",", " ">>, rowSep |-> <<",", "\n">>]

\* the whole statement on one line, "," between values and between rows
Mysqldump == [afterHeader |-> <<" ">>, fieldSep |-> <<",">>, rowSep |-> <<",">>]

DumpLayouts == {Phpmyadmin, Mysqldump}

Quoted(s) == <<Quote>> \o s \o <<Quote>>

IdTokens == <<"1", "2", "3", "4", "5", "6", "7", "8", "9">>

\* a row the primary pattern accepts: an integer id, then quoted one-letter
\* strings, a different letter at each position; with_nulls writes NULL at the
\* positions where the pattern allows it. The third base of FirstRows also has
\* NULL as date_of_birth, where the pattern asks for a quoted string.
BaseRow(k, with_nulls) ==
    [i \in 1..Len(columns) |->
        IF i = 1 THEN <<IdTokens[k]>>
        ELSE IF with_nulls /\ insert_pattern[i] = "opt" THEN NULL
        ELSE Quoted(<<LowerCase[i]>>)]

T_empty == Quoted(<<>>)

T_int == <<"7">>

T_comma == Quoted(<<"x", ",", "y">>)

T_doubled == Quoted(<<"i", "t", Quote, Quote, "s">>)

T_quoted_null == Quoted(NULL)

T_row_break == Quoted(<<"p", ")", ",", "(", "q">>)

T_unterminated == <<Quote, "z">>

VariantTokens ==
    {NULL, T_empty, T_int, T_comma, T_doubled, T_quoted_null, T_row_break, T_unterminated}

\* the first row of a dump: a base row, a base row with one token replaced,
\* a base row cut short by one token or longer by one
FirstRows ==
    LET bases == {BaseRow(1, FALSE), BaseRow(1, TRUE),
                  [BaseRow(1, TRUE) EXCEPT ![12] = NULL]}
    IN  bases
        \cup {[b EXCEPT ![p] = tok] : b \in bases, p \in 1..Len(columns), tok \in VariantTokens}
        \cup {SubSeq(b, 1, Len(b) - 1) : b \in bases}
        \cup {Append(b, Quoted(<<"x">>)) : b \in bases}

\* a row after the first: one the primary pattern accepts, or one with NULL
\* as date_of_birth, which only the fallback can read
LaterRow(k, null_date) ==
    IF null_date THEN [BaseRow(k, TRUE) EXCEPT ![12] = NULL] ELSE BaseRow(k, FALSE)

Dumps ==
    {[layout |-> l, rows |-> <<r>> \o [k \in 1..(n - 1) |-> LaterRow(k + 1, w)]] :
        l \in DumpLayouts, r \in FirstRows, n \in 1..MaxRows, w \in BOOLEAN}

RenderRow(tokens, l) == <<"(">> \o Join(tokens, l.fieldSep) \o <<")">>

\* f.read(): the text of the dump file
FileText(d) ==
    Header \o d.layout.afterHeader
        \o Join([k \in 1..Len(d.rows) |-> RenderRow(d.rows[k], d.layout)], d.layout.rowSep)
        \o <<";", "\n">>

ParserIdle ==
    /\ dump = [layout |-> Phpmyadmin, rows |-> <<>>]
    /\ ppc = "idle"
    /\ voters = <<>>
    /\ strategy = "none"
    /\ documents = <<>>
    /\ load_ret = None

-----------------------------------------------------------------------------
(* The bounded world the dispatcher runs in *)

MaxHistory == 3

Sessions == {"s1", "s2"}

Q_who_is_saiful == <<"W", "h", "o", " ", "i", "s", " ", "S", "a", "i", "f", "u", "l", "?">>

Q_his_age == <<"H", "i", "s", " ", "a", "g", "e", "?">>

Q_who_is_he == <<"W", "h", "o", " ", "i", "s", " ", "h", "e", "?">>

Questions == {Q_who_is_saiful, Q_his_age, Q_who_is_he}

Answers == {<<"A", "1">>, <<"A", "2">>}

Documents == {"doc1", "doc2"}

Raised == <<"Raised">>

\* the dictionary chat() returns, reduced to its answer
Returned(answer) == <<"answer", answer>>

NoCall == [question |-> None, context_enhanced_question |-> None]

\* the history of the manager session s talks to
HistoryOf(s) == cm_history[session_cm[s]]

InFlight(m) == {t \in Sessions : session_cm[t] = m /\ pc[t] = "query"}

-----------------------------------------------------------------------------
(* Operations *)

Init ==
    /\ cached = 0
    /\ vector_store = {}
    /\ rag_chain = None
    /\ cm_history = <<>>
    /\ session_cm = [s \in Sessions |-> 0]
    /\ pc = [s \in Sessions |-> "idle"]
    /\ pending = [s \in Sessions |-> NoCall]
    /\ ret = [s \in Sessions |-> None]
    /\ last = [op |-> "init", s |-> "none", prior |-> 0]
    /\ ParserIdle

\* main() run for the first time in session s: initialize_system() under
\* st.cache_resource builds the system once per process and hands the same
\* objects to every later caller.
SessionStart(s) ==
    /\ session_cm[s] = 0
    /\ IF cached = 0
       THEN /\ vector_store' = Documents
            /\ rag_chain' = <<"VoterRAGChain">>
            /\ cm_history' = Append(cm_history, <<>>)
            /\ cached' = Len(cm_history) + 1
       ELSE UNCHANGED <<vector_store, rag_chain, cm_history, cached>>
    /\ session_cm' = [session_cm EXCEPT ![s] = cached']
    /\ last' = [op |-> "start", s |-> s, prior |-> 0]
    /\ UNCHANGED <<pc, pending, ret>>
    /\ UNCHANGED parseVars

\* chat(question) up to the call of rag_chain.query
ChatCall(s, question) ==
    /\ session_cm[s] # 0
    /\ pc[s] = "idle"
    /\ Len(HistoryOf(s)) + Cardinality(InFlight(session_cm[s])) < MaxHistory
    /\ pending' = [pending EXCEPT ![s] =
            [question |-> question,
             context_enhanced_question |->
                 context_enhanced_question(HistoryOf(s), question)]]
    /\ pc' = [pc EXCEPT ![s] = "query"]
    /\ last' = [op |-> "call", s |-> s, prior |-> Len(HistoryOf(s))]
    /\ UNCHANGED <<cached, vector_store, rag_chain, cm_history, session_cm, ret>>
    /\ UNCHANGED parseVars

QueryReturnsRewritten(s, answer) ==
    /\ pc[s] = "query"
    /\ cm_history' = [cm_history EXCEPT ![session_cm[s]] =
            add_to_history(@, pending[s].context_enhanced_question, answer)]
    /\ ret' = [ret EXCEPT ![s] = Returned(answer)]
    /\ pc' = [pc EXCEPT ![s] = "idle"]
    /\ pending' = [pending EXCEPT ![s] = NoCall]
    /\ last' = [op |-> "ok", s |-> s, prior |-> Len(HistoryOf(s))]
    /\ UNCHANGED <<cached, vector_store, rag_chain, session_cm>>
    /\ UNCHANGED parseVars

\* rag_chain.query returns: chat() records the turn and returns the result
QueryReturns(s, answer) ==
    /\ pc[s] = "query"
    /\ cm_history' = [cm_history EXCEPT ![session_cm[s]] =
            add_to_history(@, pending[s].question, answer)]
    /\ ret' = [ret EXCEPT ![s] = Returned(answer)]
    /\ pc' = [pc EXCEPT ![s] = "idle"]
    /\ pending' = [pending EXCEPT ![s] = NoCall]
    /\ last' = [op |-> "ok", s |-> s, prior |-> Len(HistoryOf(s))]
    /\ UNCHANGED <<cached, vector_store, rag_chain, session_cm>>
    /\ UNCHANGED parseVars

QueryRaisesAfterRecording(s) ==
    /\ pc[s] = "query"
    /\ cm_history' = [cm_history EXCEPT ![session_cm[s]] =
            add_to_history(@, pending[s].question, <<>>)]
    /\ ret' = [ret EXCEPT ![s] = Raised]
    /\ pc' = [pc EXCEPT ![s] = "idle"]
    /\ pending' = [pending EXCEPT ![s] = NoCall]
    /\ last' = [op |-> "raise", s |-> s, prior |-> Len(HistoryOf(s))]
    /\ UNCHANGED <<cached, vector_store, rag_chain, session_cm>>
    /\ UNCHANGED parseVars

\* rag_chain.query raises: the exception leaves chat() before add_to_history
QueryRaises(s) ==
    /\ pc[s] = "query"
    /\ ret' = [ret EXCEPT ![s] = Raised]
    /\ pc' = [pc EXCEPT ![s] = "idle"]
    /\ pending' = [pending EXCEPT ![s] = NoCall]
    /\ last' = [op |-> "raise", s |-> s, prior |-> Len(HistoryOf(s))]
    /\ UNCHANGED <<cached, vector_store, rag_chain, cm_history, session_cm>>
    /\ UNCHANGED parseVars

\* get_history(): the caller gets the list of turns as it stands
GetHistory(s) ==
    /\ session_cm[s] # 0
    /\ pc[s] = "idle"
    /\ ret' = [ret EXCEPT ![s] = <<"history", HistoryOf(s)>>]
    /\ last' = [op |-> "get", s |-> s, prior |-> Len(HistoryOf(s))]
    /\ UNCHANGED <<cached, vector_store, rag_chain, cm_history, session_cm, pc, pending>>
    /\ UNCHANGED parseVars

ClearDropsLastTurn(s) ==
    /\ session_cm[s] # 0
    /\ pc[s] = "idle"
    /\ cm_history' = [cm_history EXCEPT ![session_cm[s]] =
            SubSeq(@, 1, Len(@) - 1)]
    /\ last' = [op |-> "clear", s |-> s, prior |-> Len(HistoryOf(s))]
    /\ UNCHANGED <<cached, vector_store, rag_chain, session_cm, pc, pending, ret>>
    /\ UNCHANGED parseVars

\* the "Clear Chat History" button: conversation_manager.clear_history()
ClearHistory(s) ==
    /\ session_cm[s] # 0
    /\ pc[s] = "idle"
    /\ cm_history' = [cm_history EXCEPT ![session_cm[s]] = <<>>]
    /\ last' = [op |-> "clear", s |-> s, prior |-> Len(HistoryOf(s))]
    /\ UNCHANGED <<cached, vector_store, rag_chain, session_cm, pc, pending, ret>>
    /\ UNCHANGED parseVars

Next ==
    \/ \E s \in Sessions : SessionStart(s)
    \/ \E s \in Sessions, q \in Questions : ChatCall(s, q)
    \/ \E s \in Sessions, a \in Answers : QueryReturns(s, a)
    \/ \E s \in Sessions : QueryRaises(s)
    \/ \E s \in Sessions : ClearHistory(s)

Spec == Init /\ [][Next]_vars

-----------------------------------------------------------------------------
(* One ConversationManager under every sequence of chat, get_history and
   clear_history of one caller *)

Caller == "s1"

NextHistory ==
    \/ SessionStart(Caller)
    \/ \E q \in Questions : ChatCall(Caller, q)
    \/ \E a \in Answers : QueryReturns(Caller, a)
    \/ QueryRaises(Caller)
    \/ ClearHistory(Caller)
    \/ GetHistory(Caller)

SpecHistory == Init /\ [][NextHistory]_vars

-----------------------------------------------------------------------------
(* The follow-up classifier on a wide range of questions: one session, a   *)
(* history that is empty or holds one turn, and chat() called with every   *)
(* question of ClassifyQuestions.                                          *)

MaxWords == 6

W_is == <<"i", "s">>

W_HIS == <<"H", "I", "S">>

W_where == <<"w", "h", "e", "r", "e">>

W_kokhon == <<"u0995", "u0996", "u09A8">>

Vocabulary == {W_is, W_HIS, W_where, W_kokhon}

\* how the words are laid out: the separator between them, and the padding
\* at both ends
Layouts == {[sep |-> <<" ">>, pad |-> <<>>], [sep |-> <<"\t", " ">>, pad |-> <<" ">>]}

ClassifyQuestions ==
    { l.pad \o Join(ws, l.sep) \o l.pad :
        ws \in UNION {[1..n -> Vocabulary] : n \in 0..MaxWords}, l \in Layouts }

InitClassify ==
    /\ cached = 1
    /\ vector_store = Documents
    /\ rag_chain = <<"VoterRAGChain">>
    /\ session_cm = [s \in Sessions |-> IF s = "s1" THEN 1 ELSE 0]
    /\ pc = [s \in Sessions |-> "idle"]
    /\ pending = [s \in Sessions |-> NoCall]
    /\ ParserIdle
    /\ \/ /\ cm_history = << <<>> >>
          /\ ret = [s \in Sessions |-> None]
          /\ last = [op |-> "start", s |-> "s1", prior |-> 0]
       \/ \E a \in {<<"A", "1">>} :
          /\ cm_history = << add_to_history(<<>>, Q_who_is_saiful, a) >>
          /\ ret = [s \in Sessions |-> IF s = "s1" THEN Returned(a) ELSE None]
          /\ last = [op |-> "ok", s |-> "s1", prior |-> 0]

NextClassify ==
    \/ \E s \in Sessions :
          /\ session_cm[s] # 0 /\ pc[s] = "idle"
          /\ \E q \in ClassifyQuestions : ChatCall(s, q)
    \/ \E s \in Sessions : QueryRaises(s)

SpecClassify == InitClassify /\ [][NextClassify]_vars

-----------------------------------------------------------------------------
(* load_voters_from_sql run on every dump of Dumps *)

InitParse ==
    /\ cached = 0
    /\ vector_store = {}
    /\ rag_chain = None
    /\ cm_history = <<>>
    /\ session_cm = [s \in Sessions |-> 0]
    /\ pc = [s \in Sessions |-> "idle"]
    /\ pending = [s \in Sessions |-> NoCall]
    /\ ret = [s \in Sessions |-> None]
    /\ last = [op |-> "init", s |-> "none", prior |-> 0]
    /\ dump \in Dumps
    /\ ppc = "start"
    /\ voters = <<>>
    /\ strategy = "none"
    /\ documents = <<>>
    /\ load_ret = None

\* parse_sql_dump(file_path)
ParseSqlDump ==
    /\ ppc = "start"
    /\ LET content == FileText(dump)
       IN  /\ voters' = parse_sql_dump(content)
           /\ strategy' = IF Len(parse_primary(content)) = 0 THEN "fallback" ELSE "primary"
    /\ ppc' = "done"
    /\ UNCHANGED <<dump, documents, load_ret>>
    /\ UNCHANGED chatVars

\* the variant of the rest of load_voters_from_sql that raises when no record
\* was parsed
CreateDocumentsOrRaise ==
    /\ ppc = "done"
    /\ documents' = create_voter_documents(voters)
    /\ load_ret' = IF Len(voters) = 0 THEN Raised ELSE <<"returned">>
    /\ ppc' = "loaded"
    /\ UNCHANGED <<dump, voters, strategy>>
    /\ UNCHANGED chatVars

\* load_voters_from_sql, lines 249-252: create_voter_documents(voters), then
\* the return of (voters, documents)
CreateVoterDocuments ==
    /\ ppc = "done"
    /\ documents' = create_voter_documents(voters)
    /\ load_ret' = <<"returned">>
    /\ ppc' = "loaded"
    /\ UNCHANGED <<dump, voters, strategy>>
    /\ UNCHANGED chatVars

NextParse ==
    \/ ParseSqlDump
    \/ CreateVoterDocuments

SpecParse == InitParse /\ [][NextParse]_vars

-----------------------------------------------------------------------------
(* Properties of the conversation layer *)

\* C1: when rag_chain.query fails during chat(q), the failure reaches the
\* caller (chat raises) and the call leaves every history as it was: neither
\* the part of chat() before the query nor the failing return changes it.
C1_FailedChatLeavesHistory ==
    [][ /\ last'.op = "call" => cm_history' = cm_history
        /\ last'.op = "raise" =>
              /\ ret'[last'.s] = Raised
              /\ pc'[last'.s] = "idle"
              /\ cm_history' = cm_history ]_vars

C1_Witness ==
    /\ last.op = "raise"
    /\ ret[last.s] = Raised
    /\ Len(HistoryOf(last.s)) >= 1
    /\ last.prior = Len(HistoryOf(last.s))

\* C2: a successful chat(q) appends exactly one turn at the end of the
\* history, holding the original question q (not the rewritten query) and the
\* answer that the call returned; nothing else in the history moves.
C2_SuccessAppendsOriginalQuestion ==
    [][ last'.op = "ok" =>
          LET s == last'.s
              m == session_cm[s]
          IN  /\ cm_history'[m] =
                    Append(cm_history[m],
                           [question |-> pending[s].question,
                            answer |-> ret'[s][2]])
              /\ \A k \in 1..Len(cm_history) : k # m => cm_history'[k] = cm_history[k]
      ]_vars

C2_Witness ==
    /\ last.op = "ok"
    /\ Len(HistoryOf(last.s)) >= 2
    /\ HistoryOf(last.s)[Len(HistoryOf(last.s))].question = Q_his_age
    /\ HistoryOf(last.s)[1].question = Q_who_is_saiful
    /\ ret[last.s][2] = HistoryOf(last.s)[Len(HistoryOf(last.s))].answer

\* C3: the query handed to retrieval+generation is the two-line frame built
\* from the question of the most recent turn and q when the history is
\* non-empty and q is classified as a follow-up, and q itself otherwise; it
\* depends on no older turn and on no answer.
C3_EffectiveQuery ==
    [][ last'.op = "call" =>
          LET s == last'.s
              h == HistoryOf(s)
              q == pending'[s].question
              sent == pending'[s].context_enhanced_question
          IN  IF Len(h) > 0 /\ is_follow_up(q)
              THEN sent = PreviousLabel \o h[Len(h)].question \o <<"\n">>
                            \o CurrentLabel \o q
              ELSE sent = q
      ]_vars

C3_Witness ==
    /\ last.op = "call"
    /\ last.prior >= 2
    /\ HistoryOf(last.s)[1].question = Q_his_age
    /\ HistoryOf(last.s)[Len(HistoryOf(last.s))].question = Q_who_is_saiful
    /\ pending[last.s].question = Q_his_age
    /\ pending[last.s].context_enhanced_question
          = ContextFrame(Q_who_is_saiful, Q_his_age)

\* the number of whitespace-delimited words: positions where a word starts
WordCount(q) ==
    Cardinality({i \in 1..Len(q) :
                    ~IsSpace(q[i]) /\ (i = 1 \/ IsSpace(q[i - 1]))})

\* the lowercased text holds an indicator as a substring
HasIndicator(q) ==
    \E k \in 1..Len(follow_up_indicators) :
        LET ind == follow_up_indicators[k]
        IN  \E i \in 1..(Len(q) - Len(ind) + 1) :
                \A n \in 1..Len(ind) : LowerChar(q[i + n - 1]) = ind[n]

\* C4: chat() treats q as a follow-up (sends the rewritten query) exactly when
\* a history exists, q has fewer than 5 whitespace-delimited words, and the
\* lowercased q contains an indicator.
C4_FollowUpIff ==
    \A s \in Sessions :
        pc[s] = "query" /\ last.op = "call" /\ last.s = s =>
            LET q == pending[s].question
                rewritten == pending[s].context_enhanced_question # q
            IN  rewritten <=> (/\ Len(HistoryOf(s)) > 0
                               /\ WordCount(q) < 5
                               /\ HasIndicator(q))

C4_Witness ==
    /\ last.op = "call"
    /\ Len(HistoryOf(last.s)) > 0
    /\ WordCount(pending[last.s].question) = 4
    /\ Contains(pending[last.s].question, W_HIS)
    /\ ~Contains(pending[last.s].question, W_where)
    /\ ~Contains(pending[last.s].question, W_kokhon)
    /\ pending[last.s].context_enhanced_question # pending[last.s].question

\* C5: with a non-empty history, "Who is he?" is sent as the context frame
\* that names the previous question.
C5_WhoIsHeIsFollowUp ==
    (/\ last.op = "call"
     /\ last.prior >= 1
     /\ pending[last.s].question = Q_who_is_he)
        => pending[last.s].context_enhanced_question
              = ContextFrame(HistoryOf(last.s)[last.prior].question, Q_who_is_he)

\* C6: a chat or clear_history of one session never changes the history
\* another session's chat and get_history work on.
C6_SessionsIndependent ==
    [][ \A s, t \in Sessions :
          (s # t /\ last'.s = s /\ last'.op \in {"ok", "clear"} /\ session_cm[t] # 0)
             => cm_history'[session_cm'[t]] = cm_history[session_cm[t]] ]_vars

\* C7: clear_history() leaves the history empty whatever its length was and
\* changes nothing else: not the chain, the vector index and its documents,
\* nor any other state.
C7_ClearHistoryFrame ==
    [][ last'.op = "clear" =>
          /\ cm_history'[session_cm[last'.s]] = <<>>
          /\ Len(cm_history') = Len(cm_history)
          /\ \A k \in 1..Len(cm_history) :
                k # session_cm[last'.s] => cm_history'[k] = cm_history[k]
          /\ UNCHANGED <<cached, vector_store, rag_chain, session_cm, pc, pending, ret>>
          /\ UNCHANGED parseVars
      ]_vars

C7_Witness ==
    /\ last.op = "clear"
    /\ last.prior >= 2
    /\ HistoryOf(last.s) = <<>>
    /\ vector_store = Documents
    /\ rag_chain # None

-----------------------------------------------------------------------------
(* Properties of the parser *)

\* the row of the dump a voter was read from: the rows after the first carry
\* their own ids
RowOfVoter(v) ==
    IF \E k \in 2..Len(dump.rows) : v["id"] = dump.rows[k][1]
    THEN dump.rows[CHOOSE k \in 2..Len(dump.rows) : v["id"] = dump.rows[k][1]]
    ELSE dump.rows[1]

\* C8: in every record either strategy returns, at every field position, an
\* unquoted NULL token is stored as null and the token '' as the empty
\* string, so the two are never stored alike.
C8_NullAndEmptyDistinct ==
    ppc = "done" =>
        \A n \in 1..Len(voters) :
            LET v == voters[n]
                row == RowOfVoter(v)
            IN  \A p \in 1..Len(columns) :
                    p <= Len(row) =>
                        /\ row[p] = NULL => v[columns[p]] = None
                        /\ row[p] = T_empty =>
                              v[columns[p]] = <<>> /\ v[columns[p]] # None

C8_Witness ==
    /\ ppc = "done"
    /\ strategy = "fallback"
    /\ Len(voters) = 1
    /\ dump.rows[1][12] = NULL
    /\ voters[1]["date_of_birth"] = None
    /\ dump.rows[1][4] = T_empty
    /\ voters[1]["name"] = <<>>

IsInteger(tok) == tok # <<>> /\ \A i \in 1..Len(tok) : tok[i] \in Digits

IsQuoted(tok) == Len(tok) >= 2 /\ tok[1] = Quote /\ tok[Len(tok)] = Quote

\* what a well-formed token means
ValueOfToken(tok) ==
    IF tok = NULL THEN None
    ELSE IF IsQuoted(tok) THEN SubSeq(tok, 2, Len(tok) - 1)
    ELSE tok

\* C9: a quoted token with a doubled quote inside parses to one field value
\* with exactly one apostrophe there, and its row is not lost.
C9_DoubledQuoteIsOneApostrophe ==
    (/\ ppc = "done"
     /\ Len(dump.rows) = 1
     /\ Len(dump.rows[1]) = Len(columns)
     /\ \E p \in 2..Len(columns) : dump.rows[1][p] = T_doubled)
        => /\ Len(voters) = 1
           /\ \A p \in 2..Len(columns) :
                 dump.rows[1][p] = T_doubled
                    => voters[1][columns[p]] = <<"i", "t", Quote, "s">>

\* a row of one token per column, each a bare integer, NULL, or a quoted
\* string with no apostrophe in it and other than 'NULL'
WellFormedRow(row) ==
    /\ Len(row) = Len(columns)
    /\ \A p \in 1..Len(row) :
          \/ IsInteger(row[p])
          \/ row[p] = NULL
          \/ /\ IsQuoted(row[p])
             /\ row[p] # T_quoted_null
             /\ \A i \in 2..(Len(row[p]) - 1) : row[p][i] # Quote

\* C10: a dump holding one well-formed row parses to exactly one record that
\* has all 23 keys and holds the Nth value under the Nth column name.
C10_OneRowOneRecord ==
    (/\ ppc = "done"
     /\ Len(dump.rows) = 1
     /\ WellFormedRow(dump.rows[1]))
        => /\ Len(voters) = 1
           /\ DOMAIN voters[1] = {columns[i] : i \in 1..Len(columns)}
           /\ \A p \in 1..Len(columns) :
                 voters[1][columns[p]] = ValueOfToken(dump.rows[1][p])

-----------------------------------------------------------------------------
(* Properties of the document synthesizer and of the loader *)

\* the label of a field's line in the text body
LabelOf(key) ==
    text_fields[CHOOSE k \in 1..Len(text_fields) : text_fields[k].key = key].label

\* C11: the document of a record whose occupation is null has no occupation
\* line in its text body and the empty string under the metadata key
\* occupation; every metadata attribute of a null field is the empty string.
C11_NullAttributeIsEmptyString ==
    ppc = "loaded" =>
        \A k \in 1..Len(voters) :
            /\ voters[k]["occupation"] = None =>
                  /\ ~Contains(documents[k].content, LabelOf("occupation"))
                  /\ "occupation" \in DOMAIN documents[k].metadata
                  /\ documents[k].metadata["occupation"] = <<>>
            /\ \A key \in metadata_keys :
                  voters[k][key] = None => documents[k].metadata[key] = <<>>


\* C12: in the fallback strategy a row chunk of fewer than 23 tokens gives a
\* record whose missing trailing fields are null, and a chunk of more than 23
\* tokens gives a record of its first 23 tokens.
C12_ShortPaddedLongTruncated ==
    (/\ ppc = "done"
     /\ strategy = "fallback"
     /\ dump.layout = Phpmyadmin
     /\ Len(dump.rows) = 1
     /\ Len(dump.rows[1]) # Len(columns))
        => /\ Len(voters) = 1
           /\ \A p \in 1..Len(columns) :
                 voters[1][columns[p]] =
                     IF p <= Len(dump.rows[1])
                     THEN ValueOfToken(dump.rows[1][p])
                     ELSE None


\* C13 as stated: when both strategies yield zero rows, load_voters_from_sql
\* ends with a failure raised to its caller.
C13_ExhaustionIsRaised ==
    (ppc = "loaded" /\ Len(voters) = 0) => load_ret = Raised

\* C13: when both strategies yield zero rows, parse_sql_dump returns the empty
\* list and load_voters_from_sql returns normally, with no record and no
\* document; nothing is raised.
C13_ExhaustionReturnsEmpty ==
    /\ (ppc \in {"done", "loaded"} /\ Len(voters) = 0) => strategy = "fallback"
    /\ (ppc = "loaded" /\ Len(voters) = 0) =>
           /\ load_ret = <<"returned">>
           /\ load_ret # Raised
           /\ documents = <<>>

C13_Witness ==
    /\ ppc = "loaded"
    /\ Len(parse_primary(FileText(dump))) = 0
    /\ Len(parse_sql_alternative(FileText(dump))) = 0
    /\ Len(voters) = 0
    /\ load_ret = <<"returned">>


\* the order of presentation: name, phonetic name, father's name, phonetic
\* father's name, mother's name, occupation, date of birth, address, ward
\* number, ward (native script), union, gender, serial
PresentationOrder ==
    <<"name", "phonetic_name", "father_name", "phonetic_father_name",
      "mother_name", "occupation", "date_of_birth", "address", "ward",
      "ward_bn", "union", "gender", "serial">>

\* the lines of the fields from the k-th of PresentationOrder on that have a
\* value: the field's label, then the value
RECURSIVE ExpectedLines(_, _)
ExpectedLines(voter, k) ==
    IF k > Len(PresentationOrder) THEN <<>>
    ELSE LET key == PresentationOrder[k]
             rest == ExpectedLines(voter, k + 1)
         IN  IF voter[key] = None \/ voter[key] = <<>>
             THEN rest
             ELSE <<LabelOf(key) \o voter[key]>> \o rest

-----------------------------------------------------------------------------
(* Properties of the history under concurrent callers *)

\* C15: while a chat call is in flight against a history, between its reading
\* of the last turn and its own append, nothing but that call's own append
\* changes the history.
C15_NoMutationWhileInFlight ==
    [][ \A s \in Sessions :
          (/\ pc[s] = "query"
           /\ cm_history'[session_cm[s]] # cm_history[session_cm[s]])
             => (last'.s = s /\ last'.op = "ok") ]_vars


\* C16: every step leaves each history unchanged, or appends exactly one turn
\* at its end, or, if it is a clear_history, makes it empty; the turns already
\* there are never edited, reordered or removed one by one.
C16_HistoryAppendOrClear ==
    [][ /\ Len(cm_history') >= Len(cm_history)
        /\ \A m \in 1..Len(cm_history) :
              \/ cm_history'[m] = cm_history[m]
              \/ /\ Len(cm_history'[m]) = Len(cm_history[m]) + 1
                 /\ SubSeq(cm_history'[m], 1, Len(cm_history[m])) = cm_history[m]
                 /\ last'.op = "ok"
              \/ /\ cm_history'[m] = <<>>
                 /\ last'.op = "clear" ]_vars

C16_Witness ==
    /\ last.op = "get"
    /\ ret[Caller] = <<"history", HistoryOf(Caller)>>
    /\ Len(HistoryOf(Caller)) = 2
    /\ HistoryOf(Caller)[1].question = Q_who_is_saiful
    /\ HistoryOf(Caller)[2].question = Q_his_age


-----------------------------------------------------------------------------
(* Properties of the fallback strategy on malformed and quoted tokens *)

\* C17: in the fallback strategy a row with an unterminated quote, at any
\* field position, gives no record at all, and every other row of the dump
\* still gives its record.
C17_MalformedRowDropped ==
    (/\ ppc = "done"
     /\ strategy = "fallback"
     /\ dump.layout = Phpmyadmin
     /\ \E p \in 1..Len(dump.rows[1]) : dump.rows[1][p] = T_unterminated)
        => /\ \A n \in 1..Len(voters) :
                 \E k \in 2..Len(dump.rows) : voters[n]["id"] = dump.rows[k][1]
           /\ \A k \in 2..Len(dump.rows) :
                 \E n \in 1..Len(voters) : voters[n]["id"] = dump.rows[k][1]


\* C18: in every record either strategy returns, at every field position,
\* the quoted token 'NULL' is stored as the four-character string NULL and
\* not as null.
C18_QuotedNullIsString ==
    ppc = "done" =>
        \A n \in 1..Len(voters) :
            LET v == voters[n]
                row == RowOfVoter(v)
            IN  \A p \in 1..Len(columns) :
                    (p <= Len(row) /\ row[p] = T_quoted_null) =>
                        /\ v[columns[p]] = <<"N", "U", "L", "L">>
                        /\ v[columns[p]] # None

=============================================================================
